---- MODULE Spec2Model ----
(***************************************************************************)
(* A model of crumbler.py, the markdown-to-html site generator: the        *)
(* breadcrumb derivation (Breadcrumb, get_breadcrumbs), the link and image *)
(* fixing of DocFragment with get_url_path, and the os.walk driver loop.   *)
(* Paths are TLA+ strings and the os.path functions are modelled on them   *)
(* character by character, as posixpath computes them.                     *)
(***************************************************************************)
EXTENDS Integers, Sequences, FiniteSets, TLC

VARIABLES
    \* ---- the run: sys_args and the file system ----
    fs,         \* the files that exist, as absolute paths
    root,       \* sys_args 'path'
    is_local,   \* sys_args 'local'
    webroot,    \* sys_args 'webpath'
    rt,         \* the directory of the walk being processed
    \* ---- get_breadcrumbs ----
    path,       \* the split path components
    i,          \* the loop index
    crumb,      \* the Breadcrumb constructed last
    crumbs,     \* the list returned
    pc,         \* position: "idle", "start", "loop", "done"
    \* ---- DocFragment.fix_html ----
    links0,     \* the <a> elements of the soup as parsed
    links,      \* the <a> elements of the soup, as fix_links leaves them
    imgs0,      \* the <img> elements of the soup as parsed
    imgs,       \* the <img> elements of the soup, as fix_imgs leaves them
    pos,        \* the number of elements the running loop has handled
    is_xlink,   \* fix_links: the local flag
    last_url,   \* the value get_url_path returned last in this document
    lpc,        \* position: "idle", "links", "imgs", "done", "error"
    \* ---- the driver ----
    dirout,     \* sys_args 'dirout'
    title_arg,  \* sys_args 'title'
    tree,       \* the directories os.walk(root) yields, in its order
    fn,         \* the file names os.walk lists in a directory
    di,         \* the number of directories the walk is done with
    fi,         \* the number of files of rt the loop is done with
    made,       \* the output directories os.makedirs has made
    breadcrumbs,  \* the breadcrumb html of rt
    toc,        \* DocFragment.md_converter.toc, shared by all documents
    doc,        \* the DocFragment of the file being converted
    out,        \* the files written, by path
    errors,     \* the paths the ERROR lines name, in order
    wpc         \* position: "idle", "walk", "crumbs", "files", "done"

runVars == <<fs, root, is_local, webroot, rt>>
crumbVars == <<path, i, crumb, crumbs, pc>>
linkVars == <<links0, links, imgs0, imgs, pos, is_xlink, last_url, lpc>>
walkVars == <<dirout, title_arg, tree, fn, di, fi, made, breadcrumbs, toc, doc,
              out, errors, wpc>>
vars == <<runVars, crumbVars, linkVars, walkVars>>

-----------------------------------------------------------------------------
(* Strings.                                                                *)

\* Python's None, and a value that is not None, for optional strings.
None == <<>>
Some(s) == <<s>>

Ch(s, k) == SubSeq(s, k, k)

startswith(s, p) == Len(p) <= Len(s) /\ SubSeq(s, 1, Len(p)) = p

endswith(s, p) == Len(p) <= Len(s) /\ SubSeq(s, Len(s) - Len(p) + 1, Len(s)) = p

\* s[k:] with k a 0-based Python index, 0 <= k.
From(s, k) == SubSeq(s, k + 1, Len(s))

RECURSIVE find(_, _, _)
\* str.find from the 1-based position k: the position of the first occurrence
\* of sub at or after k, 0 when there is none.
find(s, sub, k) ==
    IF k + Len(sub) - 1 > Len(s) THEN 0
    ELSE IF SubSeq(s, k, k + Len(sub) - 1) = sub THEN k
    ELSE find(s, sub, k + 1)

RECURSIVE rfind(_, _, _)
\* str.rfind: the position of the last occurrence of the character c at or
\* before k, 0 when there is none.
rfind(s, c, k) ==
    IF k < 1 THEN 0
    ELSE IF Ch(s, k) = c THEN k
    ELSE rfind(s, c, k - 1)

RECURSIVE replace_at(_, _, _, _)
\* str.replace(old, new) given the position k of the first occurrence.
replace_at(s, old, new, k) ==
    IF k = 0 THEN s
    ELSE SubSeq(s, 1, k - 1) \o new
         \o replace_at(SubSeq(s, k + Len(old), Len(s)), old, new,
                       find(SubSeq(s, k + Len(old), Len(s)), old, 1))

\* str.replace(old, new), old non-empty.
replace(s, old, new) == replace_at(s, old, new, find(s, old, 1))

RECURSIVE split_at(_, _, _)
split_at(s, d, k) ==
    IF k = 0 THEN <<s>>
    ELSE <<SubSeq(s, 1, k - 1)>>
         \o split_at(SubSeq(s, k + 1, Len(s)), d, find(SubSeq(s, k + 1, Len(s)), d, 1))

\* str.split(d), d one character.
split(s, d) == split_at(s, d, find(s, d, 1))

RECURSIVE strjoin(_, _)
\* d.join(list)
strjoin(d, l) ==
    IF l = <<>> THEN ""
    ELSE IF Len(l) = 1 THEN l[1]
    ELSE l[1] \o d \o strjoin(d, Tail(l))

Lower == <<"a", "b", "c", "d", "e", "f", "g", "h", "i", "j", "k", "l", "m",
           "n", "o", "p", "q", "r", "s", "t", "u", "v", "w", "x", "y", "z">>
Upper == <<"A", "B", "C", "D", "E", "F", "G", "H", "I", "J", "K", "L", "M",
           "N", "O", "P", "Q", "R", "S", "T", "U", "V", "W", "X", "Y", "Z">>
Digits == {"0", "1", "2", "3", "4", "5", "6", "7", "8", "9"}

Range(f) == {f[k] : k \in DOMAIN f}

\* The characters the regular expression class \w matches.
WordChars == Range(Lower) \cup Range(Upper) \cup Digits \cup {"_"}

IsCased(c) == c \in Range(Lower) \cup Range(Upper)

ToUpper(c) ==
    IF c \in Range(Lower) THEN Upper[CHOOSE k \in DOMAIN Lower : Lower[k] = c]
    ELSE c

ToLower(c) ==
    IF c \in Range(Upper) THEN Lower[CHOOSE k \in DOMAIN Upper : Upper[k] = c]
    ELSE c

RECURSIVE titleFrom(_, _, _)
titleFrom(s, k, prevCased) ==
    IF k > Len(s) THEN ""
    ELSE (IF prevCased THEN ToLower(Ch(s, k)) ELSE ToUpper(Ch(s, k)))
         \o titleFrom(s, k + 1, IsCased(Ch(s, k)))

\* str.title()
title(s) == titleFrom(s, 1, FALSE)

-----------------------------------------------------------------------------
(* os.path (posixpath) and the file system.                                *)

sep == "/"
pardir == ".."

\* The working directory of the process.
Cwd == "/w"

isabs(p) == startswith(p, sep)

\* os.path.join(a, b)
join(a, b) ==
    IF startswith(b, sep) THEN b
    ELSE IF a = "" \/ endswith(a, sep) THEN a \o b
    ELSE a \o sep \o b

RECURSIVE joinall(_)
\* os.path.join(*l), l non-empty
joinall(l) ==
    IF Len(l) = 1 THEN l[1]
    ELSE joinall(<<join(l[1], l[2])>> \o Tail(Tail(l)))

\* os.path.basename(p)
basename(p) == From(p, rfind(p, sep, Len(p)))

RECURSIVE allDots(_, _, _)
allDots(p, from, to) ==
    from >= to \/ (Ch(p, from) = "." /\ allDots(p, from + 1, to))

splitext_at(p, sepIndex, dotIndex) ==
    IF dotIndex > sepIndex /\ ~allDots(p, sepIndex + 1, dotIndex)
    THEN <<SubSeq(p, 1, dotIndex - 1), SubSeq(p, dotIndex, Len(p))>>
    ELSE <<p, "">>

\* os.path.splitext(p): <<root, ext>>; leading dots of the base name are not
\* an extension.
splitext(p) == splitext_at(p, rfind(p, sep, Len(p)), rfind(p, ".", Len(p)))

\* One step of the loop of posixpath.normpath: new_comps after comp.
normstep(comp, new_comps, initial_slashes) ==
    IF comp \in {"", "."} THEN new_comps
    ELSE IF comp # pardir
            \/ (initial_slashes = 0 /\ new_comps = <<>>)
            \/ (new_comps # <<>> /\ new_comps[Len(new_comps)] = pardir)
    THEN Append(new_comps, comp)
    ELSE IF new_comps # <<>> THEN SubSeq(new_comps, 1, Len(new_comps) - 1)
    ELSE new_comps

RECURSIVE normcomps(_, _, _)
\* The loop of posixpath.normpath over the components.
normcomps(comps, new_comps, initial_slashes) ==
    IF comps = <<>> THEN new_comps
    ELSE normcomps(Tail(comps), normstep(Head(comps), new_comps, initial_slashes),
                   initial_slashes)

\* The number of leading slashes posixpath.normpath keeps.
initial_slashes_of(p) ==
    IF ~startswith(p, "/") THEN 0
    ELSE IF startswith(p, "//") /\ ~startswith(p, "///") THEN 2
    ELSE 1

\* The path normpath rebuilds from the components kept.
normjoin(comps, initial_slashes) ==
    (IF initial_slashes = 2 THEN "//" ELSE IF initial_slashes = 1 THEN "/" ELSE "")
    \o strjoin("/", comps)

dot_if_empty(p) == IF p = "" THEN "." ELSE p

normpath_of(p, initial_slashes) ==
    dot_if_empty(normjoin(normcomps(split(p, "/"), <<>>, initial_slashes),
                          initial_slashes))

\* os.path.normpath(p)
normpath(p) == IF p = "" THEN "." ELSE normpath_of(p, initial_slashes_of(p))

\* os.path.abspath(p)
abspath(p) == normpath(IF isabs(p) THEN p ELSE join(Cwd, p))

NonEmpty(l) == SelectSeq(l, LAMBDA x : x # "")

RECURSIVE commonlen(_, _)
\* len(os.path.commonprefix([a, b])) for two lists
commonlen(a, b) ==
    IF a = <<>> \/ b = <<>> \/ Head(a) # Head(b) THEN 0
    ELSE 1 + commonlen(Tail(a), Tail(b))

\* The relative path from the components start_list to path_list, which
\* share their first n components.
rel_list(start_list, path_list, n) ==
    [k \in 1..(Len(start_list) - n) |-> pardir]
    \o SubSeq(path_list, n + 1, Len(path_list))

rel_join(l) == IF l = <<>> THEN "." ELSE joinall(l)

relpath_lists(start_list, path_list) ==
    rel_join(rel_list(start_list, path_list, commonlen(start_list, path_list)))

\* os.path.relpath(p, start), p non-empty
relpath(p, start) ==
    relpath_lists(NonEmpty(split(abspath(start), sep)),
                  NonEmpty(split(abspath(p), sep)))

\* os.path.exists(p): relative paths are taken from the working directory.
exists_path(p) == abspath(p) \in fs

trim_trailing(s) == IF endswith(s, sep) THEN SubSeq(s, 1, Len(s) - 1) ELSE s

\* slash_trim(s): re.sub('^\/|\/$', '', s) removes one leading and one
\* trailing separator.
slash_trim(s) == trim_trailing(IF startswith(s, sep) THEN From(s, 1) ELSE s)

-----------------------------------------------------------------------------
(* get_url_path, Breadcrumb and get_breadcrumbs.                           *)

BREADCRUMB == "\n<li>\n  <a href=\"{href}\">{text}</a>\n</li>\n"

\* lead_slash with a bug: the test for the leading slash is inverted.
lead_slash_inverted(url) == IF startswith(url, "/") THEN "/" \o url ELSE url

\* if not re.match('^/', url): url = f'/{url}'
lead_slash(url) == IF ~startswith(url, "/") THEN "/" \o url ELSE url

\* get_url_path(link, path, root, webroot)
get_url_path(link, p, r, wr) ==
    lead_slash(replace(
        join(wr, relpath(abspath(join(p, replace(link, "file:///", ""))),
                         abspath(r))),
        "\\", "/"))

\* The value _get_crumb returns for the candidate cp, which exists; skip is
\* the number of characters the no-start branch slices off beyond len(root).
crumb_result(cp, r, start, local, wr, skip) ==
    IF local
    THEN IF start # "" THEN relpath(cp, start)
         ELSE From(cp, Len(r) + skip)
    ELSE get_url_path(cp, "", r, wr)

\* The least element of a set of numbers, 0 for the empty set.
least(hits) == IF hits = {} THEN 0 ELSE CHOOSE k \in hits : \A j \in hits : k <= j

\* The first of the candidates that exists, 0 when none does.
first_existing(cands) == least({k \in DOMAIN cands : exists_path(cands[k])})

\* The return of _get_crumb: the k-th candidate as a path or url; only the
\* third is sliced one character further in the no-start branch.
crumb_return(cands, k, r, start, local, wr) ==
    IF k = 0 THEN None
    ELSE Some(crumb_result(cands[k], r, start, local, wr, IF k = 3 THEN 1 ELSE 0))

\* The candidates of _get_crumb, in the order it tries them.
crumb_candidates(g_path, g_file_base) ==
    <<join(g_path, g_file_base),
      join(g_path, "index.md"),
      join(join(".", relpath(join(g_path, pardir), ".")), g_file_base)>>

get_crumb_in(cands, r, start, local, wr) ==
    crumb_return(cands, first_existing(cands), r, start, local, wr)

get_crumb_at(g_path, g_root, base0, start, local, wr) ==
    get_crumb_in(
        crumb_candidates(g_path,
                         (IF base0 = None THEN basename(g_path) ELSE base0[1]) \o ".md"),
        g_root, start, local, wr)

\* Breadcrumb._get_crumb(path, root, base, start, is_local, webroot): the
\* name of the index file found, or None. base is an optional string.
_get_crumb(p0, r0, base0, start, local, wr) ==
    get_crumb_at(join(slash_trim(r0), slash_trim(p0)), slash_trim(r0),
                 base0, start, local, wr)

\* str.format(href=..., text=...) on a template holding {href} and {text}.
format(template, href, text) ==
    replace(replace(template, "{href}", href), "{text}", text)

\* The class attributes of Breadcrumb: an instance whose index was not found.
NoBreadcrumb ==
    [path |-> None, md_file |-> None, html_file |-> None, text |-> "", html |-> ""]

\* The attributes __init__ sets once crumb_path is trimmed.
breadcrumb_fields(b_path, crumb_path, html_file, text, html_template) ==
    [path |-> Some(b_path), md_file |-> Some(crumb_path),
     html_file |-> Some(html_file), text |-> text,
     html |-> format(html_template, html_file, text)]

breadcrumb_found(b_path, crumb_path, text, html_template) ==
    breadcrumb_fields(b_path, crumb_path,
                      SubSeq(crumb_path, 1, Len(crumb_path) - 3) \o ".html",
                      text, html_template)

\* if crumb_path is not None: ...
breadcrumb_of(b_path, b_base, found, text0, html_template) ==
    IF found # None
    THEN breadcrumb_found(b_path, slash_trim(found[1]),
                          IF text0 = "" THEN title(replace(b_base, "_", " "))
                          ELSE text0,
                          html_template)
    ELSE NoBreadcrumb

breadcrumb_base(b_path, b_root, b_base, text0, html_template, start_path, local, wr) ==
    breadcrumb_of(b_path, b_base,
                  _get_crumb(b_path, b_root, Some(b_base), start_path, local, wr),
                  text0, html_template)

breadcrumb_trimmed(b_path, b_root, text0, html_template, start_path, local, wr) ==
    breadcrumb_base(b_path, b_root,
                    IF b_path # "" THEN basename(b_path) ELSE basename(b_root),
                    text0, html_template, start_path, local, wr)

\* Breadcrumb.__init__(root, path, text, html_template, start_path, is_local,
\* webroot): the instance constructed.
Breadcrumb(r0, p0, text0, html_template, start_path, local, wr) ==
    breadcrumb_trimmed(slash_trim(p0), slash_trim(r0), text0, html_template,
                       start_path, local, wr)

\* Breadcrumb.exists()
exists(c) == Len(c.html) > 0

-----------------------------------------------------------------------------
(* The inputs of get_breadcrumbs.                                          *)

\* The deepest directory level below the root, and the most files present.
MaxDepth == 2
MaxFiles == 3

\* The nested directories of the site: a, a/b, ...
DirNames == <<"a", "b", "c", "d">>

\* The forms of the root argument: relative, with a trailing separator,
\* absolute, and the default (the working directory itself).
Roots == {"s", "s/", "/w/s", "./"}

\* (webroot, is_local)
Modes == {<<"", TRUE>>, <<"", FALSE>>, <<"docs", FALSE>>}

RECURSIVE walk_dir(_, _)
\* The directory os.walk(root) yields at level k: top itself, then
\* os.path.join(top, name) level by level.
walk_dir(r, k) == IF k = 0 THEN r ELSE join(walk_dir(r, k - 1), DirNames[k])

candidates_named(d, file_base) ==
    <<join(d, file_base), join(d, "index.md"),
      join(normpath(join(d, pardir)), file_base)>>

\* The three files that can be the index of the directory d (absolute).
Candidates(d) == candidates_named(d, basename(d) \o ".md")

\* Every file the model's file system may hold: the candidates of every
\* level, for the directory the root names and for the path slash_trim
\* turns an absolute root into.
AllFiles(r) ==
    UNION {Range(Candidates(abspath(walk_dir(r, k)))) : k \in 0..MaxDepth}

-----------------------------------------------------------------------------
(* get_breadcrumbs(root, path=rt[len(root):], start_path=rt, ...) as the   *)
(* driver calls it, one Breadcrumb per step.                               *)

IdleCrumbs ==
    /\ path = <<>>
    /\ i = 0
    /\ crumb = NoBreadcrumb
    /\ crumbs = <<>>
    /\ pc = "idle"

\* path = slash_trim(path).split(os.path.sep); if ''.join(path): ... else: ...
Begin ==
    /\ pc = "start"
    /\ path' = split(slash_trim(From(rt, Len(root))), sep)
    /\ IF strjoin("", path') # ""
       THEN /\ pc' = "loop"
            /\ crumbs' = <<>>
            /\ UNCHANGED crumb
       ELSE /\ crumb' = Breadcrumb(root, "", "", BREADCRUMB, rt, is_local, webroot)
            /\ crumbs' = <<crumb'>>
            /\ pc' = "done"
    /\ i' = 0
    /\ UNCHANGED <<runVars, linkVars, walkVars>>

\* The path argument of the Breadcrumb of level k:
\* os.path.join(*path[:i]) if i else ''
level_path(pth, k) == IF k = 0 THEN "" ELSE joinall(SubSeq(pth, 1, k))

\* LoopStep with a bug: a level without an index ends the loop.
LoopStepStopsAtGap ==
    /\ pc = "loop"
    /\ i <= Len(path)
    /\ crumb' = Breadcrumb(root, level_path(path, i), "", BREADCRUMB, rt,
                           is_local, webroot)
    /\ crumbs' = IF exists(crumb') THEN Append(crumbs, crumb') ELSE crumbs
    /\ i' = IF exists(crumb') THEN i + 1 ELSE Len(path) + 1
    /\ UNCHANGED <<path, pc, runVars, linkVars, walkVars>>

\* One iteration of: for i in range(len(path) + 1)
LoopStep ==
    /\ pc = "loop"
    /\ i <= Len(path)
    /\ crumb' = Breadcrumb(root, level_path(path, i), "", BREADCRUMB, rt,
                           is_local, webroot)
    /\ crumbs' = IF exists(crumb') THEN Append(crumbs, crumb') ELSE crumbs
    /\ i' = i + 1
    /\ UNCHANGED <<path, pc, runVars, linkVars, walkVars>>

\* The loop is exhausted: return crumbs
LoopEnd ==
    /\ pc = "loop"
    /\ i > Len(path)
    /\ pc' = "done"
    /\ UNCHANGED <<path, i, crumb, crumbs, runVars, linkVars, walkVars>>

-----------------------------------------------------------------------------
(* DocFragment.fix_html: fix_links, then fix_imgs, one element per step.   *)

\* An <a> element: its href and xlink:href attributes (None: absent).
Anchor(h, x) == [href |-> h, xlink |-> x]
\* An <img> element: its src attribute.
Img(v) == [src |-> v]

RECURSIVE sub_md(_, _)
\* re.sub(r'\.md(?:\b|$)', '.html', s) from the position k on: every ".md"
\* that the end or a non-word character follows is replaced.
sub_md(s, k) ==
    IF k > Len(s) THEN ""
    ELSE IF k + 2 <= Len(s) /\ SubSeq(s, k, k + 2) = ".md"
            /\ (k + 3 > Len(s) \/ Ch(s, k + 3) \notin WordChars)
    THEN ".html" \o sub_md(s, k + 3)
    ELSE Ch(s, k) \o sub_md(s, k + 1)

\* re.match(r'{.*}', href)
is_placeholder(href) == startswith(href, "{") /\ find(href, "}", 2) # 0

\* link.get('href'); if not href: link.get('xlink:href')
href_absent(a) == a.href = None \/ a.href = Some("")
read_href(a) == IF href_absent(a) THEN a.xlink ELSE a.href

\* The assignment that ends an iteration of fix_links.
write_href(a, flag, v) ==
    IF flag THEN [a EXCEPT !.xlink = Some(v)] ELSE [a EXCEPT !.href = Some(v)]

IdleLinks ==
    /\ links0 = <<>>
    /\ links = <<>>
    /\ imgs0 = <<>>
    /\ imgs = <<>>
    /\ pos = 0
    /\ is_xlink = FALSE
    /\ last_url = None
    /\ lpc = "idle"

\* One iteration of: for link in self.soup.select('a'). A link with neither
\* attribute makes re.match raise.
FixLink ==
    /\ lpc = "links"
    /\ pos < Len(links)
    /\ is_xlink' = (is_xlink \/ href_absent(links[pos + 1]))
    /\ IF read_href(links[pos + 1]) = None
       THEN /\ lpc' = "error"
            /\ UNCHANGED <<links, last_url, pos>>
       ELSE /\ lpc' = lpc
            /\ pos' = pos + 1
            /\ IF is_placeholder(read_href(links[pos + 1])[1])
               THEN UNCHANGED <<links, last_url>>
               ELSE /\ last_url' = IF is_local THEN last_url
                              ELSE Some(get_url_path(read_href(links[pos + 1])[1],
                                                     rt, root, webroot))
                    /\ links' = [links EXCEPT ![pos + 1] =
                          write_href(@, is_xlink',
                                     sub_md(IF is_local THEN read_href(@)[1]
                                            ELSE last_url'[1], 1))]
    /\ UNCHANGED <<links0, imgs0, imgs, runVars, crumbVars, walkVars>>

\* fix_links returns and fix_imgs starts.
FixLinksEnd ==
    /\ lpc = "links"
    /\ pos = Len(links)
    /\ lpc' = "imgs"
    /\ pos' = 0
    /\ UNCHANGED <<links0, links, imgs0, imgs, is_xlink, last_url, runVars, crumbVars,
                   walkVars>>

\* One iteration of: for img in self.soup.select('img'). In web mode an
\* image without src makes get_url_path raise.
FixImg ==
    /\ lpc = "imgs"
    /\ pos < Len(imgs)
    /\ IF ~is_local /\ imgs[pos + 1].src = None
       THEN /\ lpc' = "error"
            /\ UNCHANGED <<imgs, last_url, pos>>
       ELSE /\ lpc' = lpc
            /\ pos' = pos + 1
            /\ last_url' = IF is_local THEN last_url
                      ELSE Some(get_url_path(imgs[pos + 1].src[1], rt, root, webroot))
            /\ imgs' = [imgs EXCEPT ![pos + 1] =
                          IF is_local THEN @ ELSE Img(last_url')]
    /\ UNCHANGED <<links0, links, imgs0, is_xlink, runVars, crumbVars, walkVars>>

\* fix_imgs returns, and fix_html with it.
FixImgsEnd ==
    /\ lpc = "imgs"
    /\ pos = Len(imgs)
    /\ lpc' = "done"
    /\ UNCHANGED <<links0, links, imgs0, imgs, pos, is_xlink, last_url, runVars,
                   crumbVars, walkVars>>

-----------------------------------------------------------------------------
(* The documents of the site, as the collaborators see them: what open()   *)
(* does with a file, what the markdown converter and the parser make of    *)
(* its text.                                                                *)

\* The file names of a directory, in the order os.walk lists them.
FileNames == <<"index.md", "notes.md", ".md", "pic.svg", "bad.md", "broken.md",
               "full.md", "data.txt", "locked.bin">>

\* bad.md and locked.bin cannot be read; the page of full.md cannot be
\* written.
Readable(name) == name \notin {"bad.md", "locked.bin"}
Writable(name) == name # "full.md"

\* The <h1> of the parsed document.
H1Of(name) == IF name = "index.md" THEN Some("Home") ELSE None

\* The <a> elements of the parsed document; broken.md has one without href.
AnchorsOf(name) ==
    CASE name = "index.md" -> <<Anchor(Some("notes.md"), None)>>
      [] name = "pic.svg" -> <<Anchor(None, Some("notes.md"))>>
      [] name = "broken.md" -> <<Anchor(None, None)>>
      [] name = "full.md" -> <<Anchor(Some("{href}"), None)>>
      [] OTHER -> <<>>

\* The <img> elements of the parsed document.
ImgsOf(name) == IF name = "notes.md" THEN <<Img(Some("pic.svg"))>> ELSE <<>>

\* The table of contents the converter generates for the document at
\* file_path: every document has its own.
TocOf(file_path) == "<div class=\"toc\">" \o file_path \o "</div>"

-----------------------------------------------------------------------------
(* DocFragment: find_title with make_soup, read_file and                   *)
(* convert_md_to_html, and write_file.                                     *)

\* The titles in another order: the default before the heading.
find_title_default_first(h1, default, file_name) ==
    IF default # None THEN default[1]
    ELSE IF h1 # None THEN h1[1]
    ELSE splitext(basename(file_name))[1]

\* DocFragment.find_title(default) on a soup whose first <h1> is h1.
find_title(h1, default, file_name) ==
    IF h1 # None THEN h1[1]
    ELSE IF default # None THEN default[1]
    ELSE splitext(basename(file_name))[1]

\* read_file: only a file whose extension is .md is markdown source.
is_md_source(file_path) == splitext(file_path)[2] = ".md"

\* The test of the driver and of write_file: file_name[-3:] == '.md'
named_md(file_name) == endswith(file_name, ".md")
named_svg(file_name) == endswith(file_name, ".svg")

\* write_file: the path of the file written.
file_path_out(path_out, file_name) ==
    IF named_md(file_name)
    THEN join(path_out, splitext(basename(file_name))[1] \o ".html")
    ELSE join(path_out, file_name)

\* template.format(...): the page template holds every placeholder, the
\* template of an .svg file only {body}.
Page(source, is_page, page_title, crumbs_html, toc_html, a, im) ==
    [source |-> source,
     title |-> IF is_page THEN Some(page_title) ELSE None,
     breadcrumbs |-> IF is_page THEN Some(crumbs_html) ELSE None,
     toc |-> IF is_page THEN Some(toc_html) ELSE None,
     links |-> a, imgs |-> im]

\* shutil.copy: the file written is the source, byte for byte.
Copy(source) ==
    [source |-> source, title |-> None, breadcrumbs |-> None, toc |-> None,
     links |-> <<>>, imgs |-> <<>>]

NoDoc == [file_name |-> "", title |-> ""]

-----------------------------------------------------------------------------
(* The driver: for rt, dr, fn in os.walk(root).                            *)

\* base_out = os.path.join(root, sys_args.get('dirout'))
base_out == join(root, dirout)

\* rt_out = os.path.join(base_out, slash_trim(rt[len(root):]))
rt_out == join(base_out, slash_trim(From(rt, Len(root))))

\* rt[:len(base_out)] != base_out
not_in_output(d) == SubSeq(d, 1, IF Len(base_out) < Len(d) THEN Len(base_out)
                                 ELSE Len(d)) # base_out

\* '\n'.join([_.html for _ in get_breadcrumbs(...)])
RECURSIVE html_of(_)
html_of(l) == IF l = <<>> THEN <<>> ELSE <<Head(l).html>> \o html_of(Tail(l))

IdleWalk ==
    /\ dirout = "build"
    /\ title_arg = None
    /\ tree = <<>>
    /\ fn = <<>>
    /\ di = 0
    /\ fi = 0
    /\ made = {}
    /\ breadcrumbs = ""
    /\ toc = ""
    /\ doc = NoDoc
    /\ out = <<>>
    /\ errors = <<>>
    /\ wpc = "idle"

\* The walk yields a directory outside the output: it is mirrored and its
\* breadcrumbs are built.
EnterDir ==
    /\ wpc = "walk"
    /\ di < Len(tree)
    /\ not_in_output(tree[di + 1])
    /\ rt' = tree[di + 1]
    /\ made' = made \cup {join(base_out, slash_trim(From(rt', Len(root))))}
    /\ pc' = "start"
    /\ wpc' = "crumbs"
    /\ UNCHANGED <<fs, root, is_local, webroot, path, i, crumb, crumbs, linkVars,
                   dirout, title_arg, tree, fn, di, fi, breadcrumbs, toc, doc, out,
                   errors>>

\* The walk yields a directory whose path starts with base_out: nothing is
\* done for it.
SkipDir ==
    /\ wpc = "walk"
    /\ di < Len(tree)
    /\ ~not_in_output(tree[di + 1])
    /\ rt' = tree[di + 1]
    /\ di' = di + 1
    /\ UNCHANGED <<fs, root, is_local, webroot, crumbVars, linkVars,
                   dirout, title_arg, tree, fn, fi, made, breadcrumbs, toc, doc,
                   out, errors, wpc>>

\* get_breadcrumbs has returned: the html of the crumbs is joined.
JoinCrumbs ==
    /\ wpc = "crumbs"
    /\ pc = "done"
    /\ breadcrumbs' = strjoin("\n", html_of(crumbs))
    /\ pc' = "idle"
    /\ fi' = 0
    /\ wpc' = "files"
    /\ UNCHANGED <<runVars, path, i, crumb, crumbs, linkVars,
                   dirout, title_arg, tree, fn, di, made, toc, doc, out, errors>>

\* A file that is neither .md nor .svg is copied; a copy that fails is
\* caught and reported.
CopyFile ==
    /\ wpc = "files"
    /\ lpc = "idle"
    /\ fi < Len(fn)
    /\ ~named_md(fn[fi + 1]) /\ ~named_svg(fn[fi + 1])
    /\ IF Readable(fn[fi + 1])
       THEN /\ out' = (join(rt_out, fn[fi + 1]) :> Copy(join(rt, fn[fi + 1]))) @@ out
            /\ UNCHANGED errors
       ELSE /\ errors' = Append(errors, join(rt, fn[fi + 1]))
            /\ UNCHANGED out
    /\ fi' = fi + 1
    /\ UNCHANGED <<runVars, crumbVars, linkVars,
                   dirout, title_arg, tree, fn, di, made, breadcrumbs, toc, doc, wpc>>

\* An .md or .svg file: the DocFragment is constructed and find_title makes
\* the soup, which reads the file and, for markdown source, converts it; the
\* conversion leaves its table of contents in the shared converter. A file
\* that cannot be read raises.
FindTitle ==
    /\ wpc = "files"
    /\ lpc = "idle"
    /\ fi < Len(fn)
    /\ named_md(fn[fi + 1]) \/ named_svg(fn[fi + 1])
    /\ IF ~Readable(fn[fi + 1])
       THEN /\ lpc' = "error"
            /\ UNCHANGED <<toc, doc, links0, links, imgs0, imgs>>
       ELSE /\ toc' = IF is_md_source(join(rt, fn[fi + 1]))
                      THEN TocOf(join(rt, fn[fi + 1])) ELSE toc
            /\ links0' = AnchorsOf(fn[fi + 1])
            /\ links' = links0'
            /\ imgs0' = ImgsOf(fn[fi + 1])
            /\ imgs' = imgs0'
            /\ doc' = [file_name |-> fn[fi + 1],
                       title |-> find_title(H1Of(fn[fi + 1]), title_arg, fn[fi + 1])]
            /\ lpc' = "links"
    /\ pos' = 0
    /\ is_xlink' = FALSE
    /\ last_url' = None
    /\ UNCHANGED <<runVars, crumbVars,
                   dirout, title_arg, tree, fn, di, fi, made, breadcrumbs, out,
                   errors, wpc>>

\* fix_html has returned: write_file renders the template with the title
\* found, the breadcrumbs of the directory and the toc the shared converter
\* holds now. A page that cannot be written raises.
WriteFile ==
    /\ wpc = "files"
    /\ lpc = "done"
    /\ IF Writable(doc.file_name)
       THEN /\ out' = (file_path_out(rt_out, doc.file_name) :>
                          Page(join(rt, doc.file_name), named_md(doc.file_name),
                               doc.title, breadcrumbs, toc, links, imgs)) @@ out
            /\ UNCHANGED errors
       ELSE /\ errors' = Append(errors, join(rt, doc.file_name))
            /\ UNCHANGED out
    /\ fi' = fi + 1
    /\ lpc' = "idle"
    /\ UNCHANGED <<runVars, crumbVars, links0, links, imgs0, imgs, pos, is_xlink,
                   last_url, dirout, title_arg, tree, fn, di, made, breadcrumbs,
                   toc, doc, wpc>>

\* FileError with a bug: the exception is not caught and ends the run.
FileErrorAborts ==
    /\ wpc = "files"
    /\ lpc = "error"
    /\ errors' = Append(errors, join(rt, fn[fi + 1]))
    /\ wpc' = "done"
    /\ lpc' = "idle"
    /\ UNCHANGED <<runVars, crumbVars, links0, links, imgs0, imgs, pos, is_xlink,
                   last_url, dirout, title_arg, tree, fn, di, fi, made, breadcrumbs,
                   toc, doc, out>>

\* except: the failure of find_title or fix_html is caught and reported, and
\* the loop goes on with the next file.
FileError ==
    /\ wpc = "files"
    /\ lpc = "error"
    /\ errors' = Append(errors, join(rt, fn[fi + 1]))
    /\ fi' = fi + 1
    /\ lpc' = "idle"
    /\ UNCHANGED <<runVars, crumbVars, links0, links, imgs0, imgs, pos, is_xlink,
                   last_url, dirout, title_arg, tree, fn, di, made, breadcrumbs,
                   toc, doc, out, wpc>>

\* The files of rt are exhausted: the walk goes on.
FilesEnd ==
    /\ wpc = "files"
    /\ lpc = "idle"
    /\ fi = Len(fn)
    /\ di' = di + 1
    /\ wpc' = "walk"
    /\ UNCHANGED <<runVars, crumbVars, linkVars,
                   dirout, title_arg, tree, fn, fi, made, breadcrumbs, toc, doc, out,
                   errors>>

\* The walk is exhausted: print('Done!')
WalkEnd ==
    /\ wpc = "walk"
    /\ di = Len(tree)
    /\ wpc' = "done"
    /\ UNCHANGED <<runVars, crumbVars, linkVars,
                   dirout, title_arg, tree, fn, di, fi, made, breadcrumbs, toc, doc,
                   out, errors>>

-----------------------------------------------------------------------------
(* The specification of get_breadcrumbs alone, over every set of at most   *)
(* MaxFiles index candidates, every form of the root and every level.      *)

InitCrumbs ==
    /\ root \in Roots
    /\ fs \in {f \in SUBSET AllFiles(root) : Cardinality(f) <= MaxFiles}
    /\ \E k \in 0..MaxDepth : rt = walk_dir(root, k)
    /\ \E m \in Modes : webroot = m[1] /\ is_local = m[2]
    /\ path = <<>>
    /\ i = 0
    /\ crumb = NoBreadcrumb
    /\ crumbs = <<>>
    /\ pc = "start"
    /\ IdleLinks
    /\ IdleWalk

NextCrumbs == Begin \/ LoopStep \/ LoopEnd

SpecCrumbs == InitCrumbs /\ [][NextCrumbs]_vars

-----------------------------------------------------------------------------
(* The specification of fix_html alone, over documents of at most          *)
(* MaxAnchors links and MaxImgs images.                                    *)

MaxAnchors == 2
MaxImgs == 1

\* The attribute values of the links: markdown targets with and without a
\* fragment or query, a target with .md inside, Windows separators, a file
\* uri, an absolute path, a template placeholder.
Hrefs == {"n.md", "n.md#top", "n.md?v=1", "x.md/y.png", "..\\o\\p.png",
          "file:///w/s/c.md", "/abs/q.html", "{href}"}

Anchors ==
    {Anchor(Some(h), None) : h \in Hrefs}
    \cup {Anchor(None, Some(h)) : h \in {"n.md", "{href}"}}
    \cup {Anchor(Some(""), Some("pic.svg")), Anchor(Some("n.md"), Some("m.md")),
          Anchor(None, None)}

Imgs == {Img(None), Img(Some("p.md")), Img(Some("i\\p.png"))}

SeqsUpTo(S, m) == UNION {[1..k -> S] : k \in 0..m}

\* (root, the directory of the document)
DocDirs == {<<"s", "s/a">>, <<"/w/s", "/w/s">>, <<"./", "./a">>}

LinkModes == Modes \cup {<<"/docs", FALSE>>, <<"c:\\web", FALSE>>}

InitLinks ==
    /\ fs = {}
    /\ \E d \in DocDirs : root = d[1] /\ rt = d[2]
    /\ \E m \in LinkModes : webroot = m[1] /\ is_local = m[2]
    /\ IdleCrumbs
    /\ links0 \in SeqsUpTo(Anchors, MaxAnchors)
    /\ links = links0
    /\ imgs0 \in SeqsUpTo(Imgs, MaxImgs)
    /\ imgs = imgs0
    /\ pos = 0
    /\ is_xlink = FALSE
    /\ last_url = None
    /\ lpc = "links"
    /\ IdleWalk

NextLinks == FixLink \/ FixLinksEnd \/ FixImg \/ FixImgsEnd

SpecLinks == InitLinks /\ [][NextLinks]_vars

-----------------------------------------------------------------------------
(* The specification of a whole run: a tree of at most MaxDirs             *)
(* directories, each listing the same at most MaxFilesPerDir files.        *)

MaxDirs == 3
MaxFilesPerDir == 2

\* The directories under the root, in the order the walk yields them: the
\* output directory "build" of an earlier run with a directory inside it,
\* and a source directory whose name starts with the same letters.
WalkDirs == <<"", "a", "a/b", "build", "build/a", "builder">>

\* (root, webroot, is_local): a local build of a relative root and a web
\* build of an absolute one.
WalkSites == {<<"s", "", TRUE>>, <<"/w/s", "docs", FALSE>>}
Titles == {None, Some("Site")}

RECURSIVE Pick(_, _, _)
\* The elements of the sequence s at the positions in S, from position k on.
Pick(s, S, k) ==
    IF k > Len(s) THEN <<>>
    ELSE (IF k \in S THEN <<s[k]>> ELSE <<>>) \o Pick(s, S, k + 1)

\* A directory is in the tree only with its parent.
ParentClosed(S) == 1 \in S /\ (3 \in S => 2 \in S) /\ (5 \in S => 4 \in S)

under(r, rel) == IF rel = "" THEN r ELSE join(r, rel)

tree_of(r, rels) == [k \in 1..Len(rels) |-> under(r, rels[k])]

Trees(r) ==
    {tree_of(r, Pick(WalkDirs, S, 1)) :
        S \in {T \in SUBSET (1..Len(WalkDirs)) :
                  ParentClosed(T) /\ Cardinality(T) <= MaxDirs}}

\* The listings of a directory. Every directory lists the same names, so a
\* file is met after each of the others as soon as the tree has two
\* processed directories.
FileLists ==
    {Pick(FileNames, S, 1) :
        S \in {T \in SUBSET (1..Len(FileNames)) : Cardinality(T) <= MaxFilesPerDir}}

Init ==
    /\ \E m \in WalkSites : root = m[1] /\ webroot = m[2] /\ is_local = m[3]
    /\ title_arg \in Titles
    /\ dirout = "build"
    /\ tree \in Trees(root)
    /\ fn \in FileLists
    /\ fs = {abspath(join(d, f)) : d \in Range(tree), f \in Range(fn)}
    /\ rt = root
    /\ IdleCrumbs
    /\ IdleLinks
    /\ di = 0
    /\ fi = 0
    /\ made = {}
    /\ breadcrumbs = ""
    /\ toc = ""
    /\ doc = NoDoc
    /\ out = <<>>
    /\ errors = <<>>
    /\ wpc = "walk"

Next ==
    \/ EnterDir \/ SkipDir
    \/ Begin \/ LoopStep \/ LoopEnd \/ JoinCrumbs
    \/ CopyFile \/ FindTitle
    \/ FixLink \/ FixLinksEnd \/ FixImg \/ FixImgsEnd
    \/ WriteFile \/ FileError \/ FilesEnd \/ WalkEnd

Spec == Init /\ [][Next]_vars

\* The moves of Begin, LoopStep, FixLink and FixImg: where each is taken and
\* where it leaves the position. The rest of each of these actions gives a
\* value to the other variables in every state, so the action is enabled
\* exactly when its move is.
BeginMoves == pc = "start" /\ pc' \in {"loop", "done"}
LoopStepMoves == pc = "loop" /\ i <= Len(path) /\ i' = i + 1
FixLinkMoves ==
    /\ lpc = "links"
    /\ pos < Len(links)
    /\ (pos' = pos + 1 /\ lpc' = lpc) \/ (pos' = pos /\ lpc' = "error")
FixImgMoves ==
    /\ lpc = "imgs"
    /\ pos < Len(imgs)
    /\ (pos' = pos + 1 /\ lpc' = lpc) \/ (pos' = pos /\ lpc' = "error")

\* The interpreter runs the script statement by statement: a step that can
\* be taken is taken.
Fairness ==
    /\ WF_vars(EnterDir) /\ WF_vars(SkipDir)
    /\ WF_pc(BeginMoves) /\ WF_i(LoopStepMoves) /\ WF_vars(LoopEnd)
    /\ WF_vars(JoinCrumbs)
    /\ WF_vars(CopyFile) /\ WF_vars(FindTitle)
    /\ WF_<<pos, lpc>>(FixLinkMoves) /\ WF_vars(FixLinksEnd)
    /\ WF_<<pos, lpc>>(FixImgMoves) /\ WF_vars(FixImgsEnd)
    /\ WF_vars(WriteFile) /\ WF_vars(FileError) /\ WF_vars(FilesEnd)
    /\ WF_vars(WalkEnd)

SpecFair == Init /\ [][Next]_vars /\ Fairness

-----------------------------------------------------------------------------
(* The claims about the breadcrumbs.                                       *)

\* A Breadcrumb has been constructed, and the level it was constructed for.
Constructed == i >= 1 \/ pc = "done"
CrumbLevel == IF i >= 1 THEN i - 1 ELSE 0

\* The directory of level k, and the first of its three index candidates
\* that exists (0: none).
LevelDir(k) == abspath(walk_dir(root, k))
FirstIndex(k) == least({c \in 1..3 : Candidates(LevelDir(k))[c] \in fs})

\* md_file names the file f: relative to start_path in local mode, the url
\* of f below the root in web mode.
Denotes(md_file, f) ==
    IF is_local THEN abspath(join(rt, md_file)) = f
    ELSE md_file = slash_trim(get_url_path(f, "", root, webroot))

\* C1: for every directory D under the root and every combination of
\* existing files, the index located is the first existing of D/<base>.md,
\* D/index.md, parent(D)/<base>.md, and None exactly when none exists.
C1_FirstExistingCandidate ==
    Constructed =>
        IF FirstIndex(CrumbLevel) = 0 THEN crumb.md_file = None
        ELSE /\ crumb.md_file # None
             /\ Denotes(crumb.md_file[1],
                        Candidates(LevelDir(CrumbLevel))[FirstIndex(CrumbLevel)])

\* The Breadcrumb of level k, 0 the root.
LevelCrumb(k) ==
    Breadcrumb(root, level_path(path, k), "", BREADCRUMB, rt, is_local, webroot)

RECURSIVE ResolvedFrom(_)
\* The Breadcrumbs of the levels k..n whose index resolves, in order.
ResolvedFrom(k) ==
    IF k > Len(path) THEN <<>>
    ELSE (IF LevelCrumb(k).md_file # None THEN <<LevelCrumb(k)>> ELSE <<>>)
         \o ResolvedFrom(k + 1)

NonRootTarget == strjoin("", path) # ""

\* C2: for a non-root target with components c1..cn, get_breadcrumbs returns
\* exactly the levels 0..n whose index resolves, in ancestor-to-descendant
\* order; a level without an index does not stop the deeper ones.
C2_ResolvedLevelsInOrder ==
    (pc = "done" /\ NonRootTarget) => crumbs = ResolvedFrom(0)

\* A returned chain with a gap: level 1 has no index, levels 0 and 2 have.
C2_Witness ==
    /\ pc = "done"
    /\ Len(path) = 2
    /\ LevelCrumb(0).md_file # None
    /\ LevelCrumb(1).md_file = None
    /\ LevelCrumb(2).md_file # None
    /\ Len(crumbs) = 2
    /\ crumbs[2].path = Some(level_path(path, 2))

\* C3: every Breadcrumb of a sequence get_breadcrumbs returns, for any target
\* (the root itself included), satisfies exists().
C3_ReturnedCrumbsExist ==
    pc = "done" => \A k \in DOMAIN crumbs : exists(crumbs[k])

-----------------------------------------------------------------------------
(* The claims about fix_html and get_url_path.                             *)

\* The number of links fix_links has handled.
LinksHandled ==
    IF lpc \in {"imgs", "done"} THEN Len(links)
    ELSE IF lpc = "links" THEN pos ELSE 0

\* The number of images fix_imgs has handled.
ImgsHandled ==
    IF lpc = "done" THEN Len(imgs)
    ELSE IF lpc = "imgs" THEN pos ELSE 0

\* The link is rewritten: it has a value and that is no {placeholder}.
Eligible(a) == read_href(a) # None /\ ~is_placeholder(read_href(a)[1])

\* The value resolved: through get_url_path in web mode, as it is in local.
Resolved(v) == IF is_local THEN v ELSE get_url_path(v, rt, root, webroot)

\* C4: fix_links writes the rewritten href back onto the attribute it was
\* read from, whatever links precede: a link read from href has its href
\* updated and its xlink:href left as it was, a link read from xlink:href
\* has its xlink:href updated.
C4_WrittenWhereRead ==
    \A k \in 1..LinksHandled :
        Eligible(links0[k]) =>
            IF href_absent(links0[k])
            THEN /\ links[k].xlink = Some(sub_md(Resolved(links0[k].xlink[1]), 1))
                 /\ links[k].href = links0[k].href
            ELSE /\ links[k].href = Some(sub_md(Resolved(links0[k].href[1]), 1))
                 /\ links[k].xlink = links0[k].xlink

\* The position of the first character of s, at or after k, that starts a
\* fragment or a query; Len(s) + 1 when there is none.
RECURSIVE SuffixStart(_, _)
SuffixStart(s, k) ==
    IF k > Len(s) \/ Ch(s, k) \in {"#", "?"} THEN k ELSE SuffixStart(s, k + 1)

\* s ends in .md, optionally followed by a fragment or query.
EndsInMd(s) == endswith(SubSeq(s, 1, SuffixStart(s, 1) - 1), ".md")

\* s with that .md suffix rewritten to .html, and s itself when it does not
\* end in .md.
SuffixRewritten(s) ==
    IF EndsInMd(s)
    THEN SubSeq(s, 1, SuffixStart(s, 1) - 4) \o ".html"
         \o SubSeq(s, SuffixStart(s, 1), Len(s))
    ELSE s

\* C5: an href or src that ends in .md (optionally followed by a fragment or
\* query) has that suffix rewritten to .html, and an href that does not end
\* in .md is resolved and otherwise unchanged.
C5_OnlyMdSuffixRewritten ==
    /\ \A k \in 1..LinksHandled :
           Eligible(links0[k]) =>
               Some(SuffixRewritten(Resolved(read_href(links0[k])[1])))
                   \in {links[k].href, links[k].xlink}
    /\ \A k \in 1..ImgsHandled :
           imgs0[k].src # None =>
               imgs[k].src = Some(SuffixRewritten(Resolved(imgs0[k].src[1])))

\* C8: in web mode the url get_url_path returns begins with / and holds no
\* backslash.
C8_WebUrlRootedForwardSlashes ==
    last_url # None =>
        /\ startswith(last_url[1], "/")
        /\ find(last_url[1], "\\", 1) = 0

\* A url resolved from a link with Windows separators under a web base with
\* a backslash.
C8_Witness ==
    /\ lpc = "links"
    /\ pos = 1
    /\ last_url # None
    /\ webroot = "c:\\web"
    /\ links0[1] = Anchor(Some("..\\o\\p.png"), None)

-----------------------------------------------------------------------------
(* Claims about a whole run, under Spec.                                   *)

\* The directory d of the tree has been processed: its mirror was made.
Processed(d) == join(base_out, slash_trim(From(d, Len(root)))) \in made

\* d is the output directory or lies inside it.
InsideOutput(d) ==
    \/ abspath(d) = abspath(base_out)
    \/ startswith(abspath(d), abspath(base_out) \o sep)

\* C6: when the walk has ended, a directory of the tree was skipped if and
\* only if it is the output directory or lies inside it: every other
\* directory was processed.
C6_SkippedIffInsideOutput ==
    wpc = "done" =>
        \A k \in DOMAIN tree : Processed(tree[k]) <=> ~InsideOutput(tree[k])

\* The file at file_path has been attempted: it was written or copied, or
\* its failure was reported.
Written(file_path) == \E p \in DOMAIN out : out[p].source = file_path
Reported(file_path) == \E k \in DOMAIN errors : errors[k] = file_path
Attempted(file_path) == Written(file_path) \/ Reported(file_path)

\* Every file of every processed directory was attempted.
AllAttempted ==
    \A k \in DOMAIN tree : Processed(tree[k]) =>
        \A j \in DOMAIN fn : Attempted(join(tree[k], fn[j]))

\* C7: a failure on one file never aborts the run: once a file has failed
\* the walk still reaches its end, and it ends only when the walk is
\* exhausted and every file of every processed directory was attempted, the
\* files after a failing one included.
C7_FailureNeverAborts ==
    /\ [](wpc = "done" => di = Len(tree) /\ AllAttempted)
    /\ (lpc = "error" \/ errors # <<>>) ~> (wpc = "done")

\* The walk has ended after a failure on the first file of a directory: the
\* file listed after it was written or copied, and so was a file of a later
\* directory.
C7_Witness ==
    /\ wpc = "done"
    /\ Len(fn) = 2
    /\ Len(tree) >= 2
    /\ Reported(join(tree[1], fn[1]))
    /\ Written(join(tree[1], fn[2]))
    /\ Written(join(tree[2], fn[2]))

\* The heading of the document a page was written from.
HeadingOf(page) == H1Of(basename(page.source))

\* C9: the title of every written page is the text of the document's h1 if
\* it has one, else the default title if one was given, else the base name
\* of the file without its extension.
C9_TitlePrecedence ==
    \A p \in DOMAIN out : out[p].title # None =>
        /\ HeadingOf(out[p]) # None => out[p].title = HeadingOf(out[p])
        /\ HeadingOf(out[p]) = None /\ title_arg # None =>
              out[p].title = title_arg
        /\ HeadingOf(out[p]) = None /\ title_arg = None =>
              out[p].title = Some(splitext(basename(out[p].source))[1])

\* A run with a default title has written a page of a document with an h1,
\* titled by the heading, and a page of a document without, titled by the
\* default.
C9_Witness ==
    /\ title_arg = Some("Site")
    /\ \E p \in DOMAIN out : out[p].title = Some("Home")
    /\ \E p \in DOMAIN out :
          /\ basename(out[p].source) = "notes.md"
          /\ out[p].title = Some("Site")

\* C10: the table of contents of every .md page written is the one the
\* converter generated for the document the page was written from.
C10_TocOfSameDocument ==
    \A p \in DOMAIN out : out[p].toc # None =>
        out[p].toc = Some(TocOf(out[p].source))

====
